---- MODULE Spec2Model ----
(***************************************************************************)
(* Model of the plaintext-calendar backend: the text-to-event pipeline     *)
(* (services/nlpService.ts), the availability check (middleware/auth.ts,   *)
(* checkAvailability and generateSuggestedTimes) and the route             *)
(* POST /api/events/process (routes/events.ts) that runs one after the     *)
(* other.                                                                  *)
(*                                                                         *)
(* The regular expressions of createSmartFallback are matched character by *)
(* character by a backtracking matcher (TLC reads a string as a sequence   *)
(* of characters: Len, SubSeq and \o apply to it).                         *)
(* Instants are minutes since an epoch (UTC); a timezone is a fixed offset *)
(* in minutes (no daylight saving changes inside the modelled days).       *)
(***************************************************************************)
EXTENDS Integers, Sequences, FiniteSets, TLC

VARIABLES
    authorization,   \* req.headers.authorization: "absent" or the header's value
    user,            \* req.user
    text,            \* req.body.text
    extracted,       \* what the patterns of createSmartFallback read off text
    userTimezone,    \* req.body.timezone: "absent" or a timezone name
    serverTz,        \* timezone name the server process runs in
    now,             \* the instant new Date() reads during the request
    openai,          \* nlpService.ts:6, the OpenAI client is configured
    ollama,          \* nlpService.ts:5, the Ollama client is configured
    processEnv,      \* process.env as the route handlers read it
    statusReport,    \* the answer of GET /api/events/nlp-status
    pc,              \* position of the request inside the route handler
    calls,           \* sequence of external calls issued so far
    inflight,        \* set of generative calls awaiting their reply
    reply,           \* the reply of a generative call that has arrived
    eventData,       \* what processTextToEvent settled with
    via,             \* which strategy produced eventData
    calendar,        \* the user's primary calendar (external), once read
    existingEvents,  \* response.data.items of calendar.events.list
    listFailed,      \* calendar.events.list threw
    availability,    \* what checkAvailability resolved with
    response,        \* the HTTP answer of the route
    inserted         \* the events written to the calendar by events.insert

vars == <<authorization, user, text, extracted, userTimezone, serverTz, now, openai, ollama, processEnv, statusReport, pc, calls, inflight, reply,
          eventData, via, calendar, existingEvents, listFailed, availability, response,
          inserted>>

----------------------------------------------------------------------------
(* Characters *)

UpperChars == "ABCDEFGHIJKLMNOPQRSTUVWXYZ"
LowerChars == "abcdefghijklmnopqrstuvwxyz"
DigitChars == "0123456789"

CharAt(s, i) == SubSeq(s, i, i)                     \* s.charAt(i - 1)
IndexIn(chars, c) ==                                \* chars.indexOf(c) + 1, 0 if absent
    IF \E i \in 1..Len(chars) : CharAt(chars, i) = c
    THEN CHOOSE i \in 1..Len(chars) : CharAt(chars, i) = c
    ELSE 0

IsUpper(c) == IndexIn(UpperChars, c) > 0
IsLower(c) == IndexIn(LowerChars, c) > 0
IsDigit(c) == IndexIn(DigitChars, c) > 0
IsAlpha(c) == IsUpper(c) \/ IsLower(c)
IsSpace(c) == c = " "

ToLowerChar(c) == IF IsUpper(c) THEN CharAt(LowerChars, IndexIn(UpperChars, c)) ELSE c
ToUpperChar(c) == IF IsLower(c) THEN CharAt(UpperChars, IndexIn(LowerChars, c)) ELSE c
DigitValue(c) == IndexIn(DigitChars, c) - 1

----------------------------------------------------------------------------
(* A backtracking matcher for the regular expressions of the source.       *)
(* A pattern is a tree of nodes; M matches a stack of nodes (the node and  *)
(* everything that has to follow it) and returns the first success in the  *)
(* order a backtracking engine tries them: alternatives left to right,     *)
(* greedy quantifiers longest first, lazy quantifiers shortest first.      *)

Lit(w)         == [t |-> "lit", w |-> w]          \* literal, compared under /i
Cls(c)         == [t |-> "cls", c |-> c]          \* one character of a class
Cat(xs)        == [t |-> "cat", xs |-> xs]        \* concatenation
Alt(xs)        == [t |-> "alt", xs |-> xs]        \* a|b|c
Opt(x)         == [t |-> "rep", x |-> x, lo |-> 0, hi |-> 1]    \* x?
Rep(x, lo, hi) == [t |-> "rep", x |-> x, lo |-> lo, hi |-> hi]  \* x{lo,hi}
Star(x)        == [t |-> "star", x |-> x]         \* x*
Plus(x)        == [t |-> "plus", x |-> x]         \* x+
LazyStar(x)    == [t |-> "lazystar", x |-> x]     \* x*?
LazyPlus(x)    == [t |-> "lazyplus", x |-> x]     \* x+?
Cap(k, x)      == [t |-> "cap", k |-> k, x |-> x] \* capture group k
CapOpen(k)     == [t |-> "open", k |-> k]
CapClose(k)    == [t |-> "close", k |-> k]
Bol            == [t |-> "bol"]                   \* ^
Eol            == [t |-> "eol"]                   \* $

InClass(c, ch) ==
    CASE c = "s"      -> IsSpace(ch)                               \* \s
      [] c = "d"      -> IsDigit(ch)                               \* \d
      [] c = "azs"    -> IsAlpha(ch) \/ IsSpace(ch)                \* [a-zA-Z\s]
      [] c = "az09s"  -> IsAlpha(ch) \/ IsDigit(ch) \/ IsSpace(ch) \* [a-zA-Z0-9\s]
      [] c = "any"    -> TRUE                                      \* [\s\S]
      [] OTHER        -> FALSE

NoCaps == <<<<-1, -1>>, <<-1, -1>>, <<-1, -1>>>>
NoMatch == [ok |-> FALSE, pos |-> 0, caps |-> NoCaps]

LitAt(w, s, pos) ==
    /\ pos + Len(w) <= Len(s)
    /\ \A i \in 1..Len(w) : ToLowerChar(CharAt(s, pos + i)) = ToLowerChar(CharAt(w, i))

RECURSIVE M(_, _, _, _), MAlt(_, _, _, _, _, _)
M(stack, s, pos, caps) ==
    IF Len(stack) = 0 THEN [ok |-> TRUE, pos |-> pos, caps |-> caps]
    ELSE LET n == Head(stack)
             rest == Tail(stack)
         IN CASE n.t = "lit" ->
                   IF LitAt(n.w, s, pos) THEN M(rest, s, pos + Len(n.w), caps) ELSE NoMatch
              [] n.t = "cls" ->
                   IF pos < Len(s) /\ InClass(n.c, CharAt(s, pos + 1))
                   THEN M(rest, s, pos + 1, caps) ELSE NoMatch
              [] n.t = "cat" -> M(n.xs \o rest, s, pos, caps)
              [] n.t = "alt" -> MAlt(n.xs, 1, rest, s, pos, caps)
              [] n.t = "rep" ->
                   IF n.hi = 0 THEN M(rest, s, pos, caps)
                   ELSE LET more == M(<<n.x, Rep(n.x, IF n.lo > 0 THEN n.lo - 1 ELSE 0, n.hi - 1)>>
                                        \o rest, s, pos, caps)
                        IN IF more.ok THEN more
                           ELSE IF n.lo = 0 THEN M(rest, s, pos, caps) ELSE NoMatch
              [] n.t = "star" ->
                   LET more == M(<<n.x, n>> \o rest, s, pos, caps)
                   IN IF more.ok THEN more ELSE M(rest, s, pos, caps)
              [] n.t = "plus" -> M(<<n.x, Star(n.x)>> \o rest, s, pos, caps)
              [] n.t = "lazystar" ->
                   LET stop == M(rest, s, pos, caps)
                   IN IF stop.ok THEN stop ELSE M(<<n.x, n>> \o rest, s, pos, caps)
              [] n.t = "lazyplus" -> M(<<n.x, LazyStar(n.x)>> \o rest, s, pos, caps)
              [] n.t = "cap" -> M(<<CapOpen(n.k), n.x, CapClose(n.k)>> \o rest, s, pos, caps)
              [] n.t = "open" -> M(rest, s, pos, [caps EXCEPT ![n.k] = <<pos, -1>>])
              [] n.t = "close" -> M(rest, s, pos, [caps EXCEPT ![n.k] = <<caps[n.k][1], pos>>])
              [] n.t = "bol" -> IF pos = 0 THEN M(rest, s, pos, caps) ELSE NoMatch
              [] n.t = "eol" -> IF pos = Len(s) THEN M(rest, s, pos, caps) ELSE NoMatch
MAlt(xs, i, rest, s, pos, caps) ==
    IF i > Len(xs) THEN NoMatch
    ELSE LET r == M(<<xs[i]>> \o rest, s, pos, caps)
         IN IF r.ok THEN r ELSE MAlt(xs, i + 1, rest, s, pos, caps)

(* String.prototype.match without /g: the leftmost match, or null (ok = FALSE). *)
RECURSIVE SearchFrom(_, _, _)
SearchFrom(re, s, from) ==
    IF from > Len(s) THEN [ok |-> FALSE, from |-> 0, to |-> 0, caps |-> NoCaps]
    ELSE LET r == M(<<re>>, s, from, NoCaps)
         IN IF r.ok THEN [ok |-> TRUE, from |-> from, to |-> r.pos, caps |-> r.caps]
            ELSE SearchFrom(re, s, from + 1)
Match(re, s) == SearchFrom(re, s, 0)

Slice(s, from, to) == SubSeq(s, from + 1, to)       \* s.slice(from, to), 0-based
Group0(s, m) == Slice(s, m.from, m.to)              \* match[0]
HasGroup(m, k) == m.caps[k][2] >= 0                 \* match[k] !== undefined
Group(s, m, k) == Slice(s, m.caps[k][1], m.caps[k][2])   \* match[k]

----------------------------------------------------------------------------
(* String helpers of the JavaScript runtime *)

RECURSIVE TrimStart(_), TrimEnd(_), SplitFrom(_, _, _), Join(_), ParseDigits(_, _, _)
TrimStart(s) ==
    IF Len(s) > 0 /\ IsSpace(CharAt(s, 1)) THEN TrimStart(SubSeq(s, 2, Len(s))) ELSE s
TrimEnd(s) ==
    IF Len(s) > 0 /\ IsSpace(CharAt(s, Len(s))) THEN TrimEnd(SubSeq(s, 1, Len(s) - 1)) ELSE s
Trim(s) == TrimEnd(TrimStart(s))                                 \* s.trim()

SplitFrom(s, i, cur) ==
    IF i > Len(s) THEN <<cur>>
    ELSE IF CharAt(s, i) = " " THEN <<cur>> \o SplitFrom(s, i + 1, "")
    ELSE SplitFrom(s, i + 1, cur \o CharAt(s, i))
Split(s) == SplitFrom(s, 1, "")                                  \* s.split(' ')

Join(words) ==                                                   \* words.join(' ')
    IF Len(words) = 0 THEN ""
    ELSE IF Len(words) = 1 THEN words[1]
    ELSE words[1] \o " " \o Join(Tail(words))

ToLowerCase(s) ==                                                \* s.toLowerCase()
    LET RECURSIVE Low(_)
        Low(i) == IF i > Len(s) THEN "" ELSE ToLowerChar(CharAt(s, i)) \o Low(i + 1)
    IN Low(1)

Includes(s, w) ==                                                \* s.includes(w)
    \E p \in 0..(Len(s) - Len(w)) : SubSeq(s, p + 1, p + Len(w)) = w

NaN == -1                                                        \* parseInt found no digit
ParseDigits(s, i, acc) ==
    IF i <= Len(s) /\ IsDigit(CharAt(s, i))
    THEN ParseDigits(s, i + 1, acc * 10 + DigitValue(CharAt(s, i)))
    ELSE acc
ParseInt(s) ==                                                   \* parseInt(s)
    IF Len(s) > 0 /\ IsDigit(CharAt(s, 1)) THEN ParseDigits(s, 1, 0) ELSE NaN

----------------------------------------------------------------------------
(* createSmartFallback: title (nlpService.ts:142-171) *)

S  == Cls("s")
D  == Cls("d")
EventNouns ==
    Alt(<<Lit("meeting"), Lit("appointment"), Lit("session"), Lit("call"),
          Lit("conference"), Lit("interview"), Lit("lunch"), Lit("dinner"),
          Lit("breakfast"), Lit("workout"), Lit("gym"), Lit("class"), Lit("lesson"),
          Lit("training"), Lit("workshop"), Lit("seminar")>>)

doPattern ==
    Cat(<<Bol,
          Opt(Cat(<<Lit("i"), Plus(S)>>)),
          Opt(Cat(<<Lit("want"), Plus(S), Lit("to"), Plus(S)>>)),
          Opt(Cat(<<Lit("need"), Plus(S), Lit("to"), Plus(S)>>)),
          Opt(Cat(<<Lit("have"), Plus(S), Lit("to"), Plus(S)>>)),
          Opt(Cat(<<Lit("should"), Plus(S)>>)),
          Opt(Cat(<<Lit("can"), Plus(S)>>)),
          Opt(Cat(<<Lit("will"), Plus(S)>>)),
          Opt(Cat(<<Lit("do"), Plus(S)>>)),
          Cap(1, LazyPlus(Cls("azs"))),
          Alt(<<Cat(<<Plus(S),
                      Alt(<<Lit("tomorrow"), Lit("today"), Lit("at"), Lit("for"),
                            Cat(<<Lit("hour"), Opt(Lit("s"))>>),
                            Cat(<<Lit("minute"), Opt(Lit("s"))>>),
                            Lit("pm"), Lit("am"), Plus(D),
                            Cat(<<Plus(D), Lit(":"), Plus(D)>>)>>)>>),
                Cat(<<Star(S), Eol>>)>>)>>)

meetingPattern == Cat(<<Cap(1, LazyPlus(Cls("azs"))), Plus(S), EventNouns>>)

StopWords == {"the", "and", "for", "with", "at", "in", "on", "to", "of", "a", "an"}
AllDigits == Cat(<<Bol, Plus(D), Eol>>)                          \* /^\d+$/
UnitWord ==                                                      \* /^(am|pm|hours?|minutes?)$/i
    Cat(<<Bol, Alt(<<Lit("am"), Lit("pm"), Cat(<<Lit("hour"), Opt(Lit("s"))>>),
                     Cat(<<Lit("minute"), Opt(Lit("s"))>>)>>), Eol>>)

IsContentWord(word) ==
    /\ Len(word) > 2
    /\ ToLowerCase(word) \notin StopWords
    /\ ~Match(AllDigits, word).ok
    /\ ~Match(UnitWord, word).ok

RECURSIVE Filter(_)
Filter(words) ==
    IF Len(words) = 0 THEN <<>>
    ELSE (IF IsContentWord(Head(words)) THEN <<Head(words)>> ELSE <<>>) \o Filter(Tail(words))

(* Rule (a), lines 146-149 *)
TitleByDoPattern(txt, title) ==
    LET m == Match(doPattern, txt)
    IN IF m.ok /\ Len(Trim(Group(txt, m, 1))) > 0 THEN Trim(Group(txt, m, 1)) ELSE title

(* Rule (b), lines 152-155: it runs whatever rule (a) found and overwrites it *)
TitleByMeetingPattern(txt, title) ==
    LET m == Match(meetingPattern, txt)
        parts == Split(Group0(txt, m))
    IN IF m.ok /\ Len(Trim(Group(txt, m, 1))) > 0
       THEN Trim(Group(txt, m, 1)) \o " " \o parts[Len(parts)]
       ELSE title

(* Rule (c) without the test of line 165 *)
TitleByWordsUnchecked(txt, title) ==
    LET words == Filter(Split(txt))
    IN IF title = "Event"
       THEN Join(SubSeq(words, 1, IF Len(words) < 3 THEN Len(words) ELSE 3))
       ELSE title

(* Rule (c), lines 158-168 *)
TitleByWords(txt, title) ==
    LET words == Filter(Split(txt))
    IN IF title = "Event" /\ Len(words) > 0
       THEN Join(SubSeq(words, 1, IF Len(words) < 3 THEN Len(words) ELSE 3))
       ELSE title

(* The capitalization without word.slice(1) *)
CapitalizeWordUnsliced(word) ==
    IF Len(word) = 0 THEN "" ELSE ToUpperChar(CharAt(word, 1)) \o word

CapitalizeWord(word) ==
    IF Len(word) = 0 THEN "" ELSE ToUpperChar(CharAt(word, 1)) \o SubSeq(word, 2, Len(word))

RECURSIVE MapCapitalize(_)
MapCapitalize(words) ==
    IF Len(words) = 0 THEN <<>>
    ELSE <<CapitalizeWord(Head(words))>> \o MapCapitalize(Tail(words))

Capitalize(title) == Join(MapCapitalize(Split(title)))           \* line 171

ExtractTitle(txt) ==
    Capitalize(TitleByWords(txt, TitleByMeetingPattern(txt, TitleByDoPattern(txt, "Event"))))

----------------------------------------------------------------------------
(* createSmartFallback: duration (nlpService.ts:173-187) *)

HourUnit ==                                                      \* (?:hours?|hrs?|hour)
    Alt(<<Cat(<<Lit("hour"), Opt(Lit("s"))>>), Cat(<<Lit("hr"), Opt(Lit("s"))>>), Lit("hour")>>)

(* The patterns without their "hr" and "hrs" alternatives *)
durationPatternsHoursOnly ==
    << Cat(<<Cap(1, Plus(D)), Star(S), Cat(<<Lit("hour"), Opt(Lit("s"))>>)>>),
       Cat(<<Lit("for"), Plus(S), Cap(1, Plus(D)), Star(S),
             Cat(<<Lit("hour"), Opt(Lit("s"))>>)>>),
       Cat(<<Cap(1, Plus(D)), Star(S), Lit("hour"), Plus(S),
             Alt(<<Lit("long"), Lit("duration")>>)>>) >>

durationPatterns ==
    << Cat(<<Cap(1, Plus(D)), Star(S), HourUnit>>),
       Cat(<<Lit("for"), Plus(S), Cap(1, Plus(D)), Star(S), HourUnit>>),
       Cat(<<Cap(1, Plus(D)), Star(S), Alt(<<Lit("hour"), Lit("hr")>>), Plus(S),
             Alt(<<Lit("long"), Lit("duration")>>)>>) >>

RECURSIVE DurationFrom(_, _)
DurationFrom(txt, i) ==
    IF i > Len(durationPatterns) THEN 1                          \* let durationHours = 1
    ELSE LET m == Match(durationPatterns[i], txt)
         IN IF m.ok THEN ParseInt(Group(txt, m, 1)) ELSE DurationFrom(txt, i + 1)
ExtractDuration(txt) == DurationFrom(txt, 1)

----------------------------------------------------------------------------
(* createSmartFallback: location (nlpService.ts:189-203) *)

AtOrIn == Alt(<<Lit("at"), Lit("@"), Lit("in")>>)

locationPatterns ==
    << Cat(<<AtOrIn, Plus(S), Cap(1, LazyPlus(Cls("az09s"))),
             Alt(<<Cat(<<Plus(S),
                         Alt(<<Lit("tomorrow"), Lit("today"),
                               Cat(<<Lit("hour"), Opt(Lit("s"))>>),
                               Cat(<<Lit("minute"), Opt(Lit("s"))>>),
                               Lit("pm"), Lit("am"), Plus(D)>>)>>),
                   S, Eol>>)>>),
       Cat(<<EventNouns, Plus(S), AtOrIn, Plus(S), Cap(1, LazyPlus(Cls("az09s"))),
             Alt(<<S, Eol>>)>>),
       Cat(<<Alt(<<Cat(<<Lit("go"), Plus(S), Lit("to")>>), Lit("visit"), Lit("see")>>),
             Plus(S), Cap(1, LazyPlus(Cls("az09s"))), Alt(<<S, Eol>>)>>) >>

RECURSIVE LocationFrom(_, _)
LocationFrom(txt, i) ==
    IF i > Len(locationPatterns) THEN "TBD"                      \* let location = 'TBD'
    ELSE LET m == Match(locationPatterns[i], txt)
         IN IF m.ok /\ Len(Trim(Group(txt, m, 1))) > 0
            THEN Trim(Group(txt, m, 1))
            ELSE LocationFrom(txt, i + 1)
ExtractLocation(txt) == LocationFrom(txt, 1)

----------------------------------------------------------------------------
(* createSmartFallback: clock time (nlpService.ts:229-262) *)

AmPm == Alt(<<Lit("am"), Lit("pm")>>)

timePatterns ==
    << Cat(<<Cap(1, Rep(D, 1, 2)), Lit(":"), Cap(2, Rep(D, 2, 2)), Star(S), Opt(Cap(3, AmPm))>>),
       Cat(<<Cap(1, Rep(D, 1, 2)), Star(S), Cap(2, AmPm)>>),
       Cat(<<Lit("at"), Plus(S), Cap(1, Rep(D, 1, 2)), Opt(Lit(":")), Opt(Cap(2, Rep(D, 2, 2))),
             Star(S), Opt(Cap(3, AmPm))>>),
       Cat(<<Cap(1, Rep(D, 1, 2)), Star(S), Alt(<<Lit("o'clock"), Lit("oclock")>>)>>) >>

NoClock == [found |-> FALSE, h |-> 0, m |-> 0]                   \* no pattern was applied

RECURSIVE ClockFrom(_, _)
(* Lines 238-261, the body of the loop for pattern i with its match m *)
ClockOf(txt, m, i) ==
    LET hours == ParseInt(Group(txt, m, 1))
        minutes == IF HasGroup(m, 2) /\ Len(Group(txt, m, 2)) > 0
                   THEN ParseInt(Group(txt, m, 2)) ELSE 0
        ampm == IF HasGroup(m, 3) THEN ToLowerCase(Group(txt, m, 3)) ELSE "undefined"
        hours24 == IF ampm = "pm" /\ hours # 12 THEN hours + 12
                   ELSE IF ampm = "am" /\ hours = 12 THEN 0
                   ELSE hours
    IN IF ~m.ok THEN ClockFrom(txt, i + 1)
       ELSE IF hours = NaN \/ hours < 0 \/ hours > 23 THEN ClockFrom(txt, i + 1)
       ELSE IF minutes = NaN \/ minutes < 0 \/ minutes > 59 THEN ClockFrom(txt, i + 1)
       ELSE IF hours24 < 0 \/ hours24 > 23 THEN ClockFrom(txt, i + 1)
       ELSE [found |-> TRUE, h |-> hours24, m |-> minutes]
ClockFrom(txt, i) ==
    IF i > Len(timePatterns) THEN NoClock
    ELSE ClockOf(txt, Match(timePatterns[i], txt), i)
ExtractClock(txt) == ClockFrom(txt, 1)

----------------------------------------------------------------------------
(* Dates. An instant is a number of minutes (UTC); setHours works in the    *)
(* local time of the server process, whose offset is off.                   *)

MinutesPerDay == 1440
MinutesPerHour == 60

TzOffset(tz) ==                       \* minutes east of UTC
    CASE tz = "UTC" -> 0
      [] tz = "America/New_York" -> -240
      [] tz = "Asia/Tokyo" -> 540
      [] OTHER -> 0
IsTimeZone(tz) == tz \in {"UTC", "America/New_York", "Asia/Tokyo"}

LocalDay(t, off) == (t + off) \div MinutesPerDay
SetHours(t, h, m, off) ==             \* date.setHours(h, m, 0, 0)
    LocalDay(t, off) * MinutesPerDay + h * MinutesPerHour + m - off

(* The date keywords tested with "tomorrow" ahead of "today" *)
ExtractDateTomorrowFirst(txt) ==
    LET textLower == ToLowerCase(txt)
    IN IF Includes(textLower, "tomorrow") THEN 1
       ELSE IF Includes(textLower, "today") THEN 0
       ELSE IF Includes(textLower, "next week") THEN 7
       ELSE IF Includes(textLower, "this week") THEN 0
       ELSE 1

(* createSmartFallback: date (nlpService.ts:205-217), as the number of days *)
(* eventDate lies after now                                                 *)
ExtractDate(txt) ==
    LET textLower == ToLowerCase(txt)
    IN IF Includes(textLower, "today") THEN 0
       ELSE IF Includes(textLower, "tomorrow") THEN 1
       ELSE IF Includes(textLower, "next week") THEN 7
       ELSE IF Includes(textLower, "this week") THEN 0
       ELSE 1

(* The texts of the requests *)
MaxDurationN == 2      \* largest number of hours written in a generated text

RECURSIVE Digits(_)
Digits(n) ==           \* String(n)
    IF n < 10 THEN CharAt(DigitChars, n + 1)
    ELSE Digits(n \div 10) \o CharAt(DigitChars, (n % 10) + 1)

Texts ==
    { "gym session tomorrow for 2 hours at the arc gym",
      "meeting at 3pm today",
      "dinner at 8pm today",
      "run 2 hrs",
      "team sync",
      "lunch 3pm tomorrow",
      "team meeting notes tomorrow",
      "call today not tomorrow",
      "review next week",
      "plan this week",
      "" }
    \cup { "nap for " \o Digits(n) \o " hours" : n \in 0..MaxDurationN }

(* What createSmartFallback reads off the text alone (lines 142-262: the    *)
(* title, the duration, the location, the day and the clock time); it is   *)
(* computed once for each request and carried in the variable extracted.   *)
Extracted ==
    [txt \in Texts |->
        [title |-> ExtractTitle(txt),
         durationHours |-> ExtractDuration(txt),
         location |-> ExtractLocation(txt),
         days |-> ExtractDate(txt),
         clock |-> ExtractClock(txt)]]

(* createSmartFallback (nlpService.ts:123-301). The timezone argument is    *)
(* never read by the function. The guards on invalid dates (lines 130,      *)
(* 223, 265, 273) and the catch of line 287 are not reachable here: every   *)
(* instant of the model is a valid date, the numbers written in the texts   *)
(* being far below the range of Date.                                       *)
SmartFallbackOf(parts, txt, nowT, off) ==
    LET eventDate == nowT + parts.days * 24 * MinutesPerHour
        atTwo == SetHours(eventDate, 14, 0, off)
        eventTime == IF parts.clock.found
                     THEN SetHours(atTwo, parts.clock.h, parts.clock.m, off)
                     ELSE atTwo
        endTime == eventTime + parts.durationHours * MinutesPerHour
    IN [title |-> parts.title,
        start |-> eventTime,
        end |-> endTime,
        location |-> parts.location,
        description |-> txt]

createSmartFallback(txt, tz, nowT, off) == SmartFallbackOf(Extracted[txt], txt, nowT, off)

----------------------------------------------------------------------------
(* The reply of a generative service. A reply is a sequence of tokens:      *)
(* "{" and "}" are the brace characters, "prose" and "Output:" are runs of  *)
(* brace-free text that is not JSON, and a body token is a brace-free list  *)
(* of JSON members.                                                         *)

BodyNames == {"full", "core", "untitled", "inverted"}

Body(b, nowT) ==
    LET st == nowT + 24 * MinutesPerHour
    IN CASE b = "full" ->
              [title |-> "Gym Session", start |-> st, end |-> st + 2 * MinutesPerHour,
               location |-> "Arc Gym", description |-> "Gym session"]
         [] b = "core" ->
              [title |-> "Gym Session", start |-> st, end |-> st + 2 * MinutesPerHour]
         [] b = "untitled" ->
              [start |-> st, end |-> st + 2 * MinutesPerHour,
               location |-> "Arc Gym", description |-> "Gym session"]
         [] b = "inverted" ->
              [title |-> "Gym Session", start |-> st, end |-> st - MinutesPerHour,
               location |-> "Arc Gym", description |-> "Gym session"]

Replies ==
    { <<"{", "full", "}">>,
      <<"prose", "{", "full", "}", "prose">>,
      <<"Output:", "{", "core", "}">>,
      <<"{", "untitled", "}">>,
      <<"{", "inverted", "}">>,
      <<"{", "full", "}", "prose", "}">>,
      <<"{", "prose", "}">>,
      <<"prose">>,
      <<>> }

(* responseText.match(/\{[\s\S]*\}/): from the first "{" to the last "}" *)
JsonMatch(responseText) ==
    LET opens == {i \in 1..Len(responseText) : responseText[i] = "{"}
        first == CHOOSE i \in opens : \A j \in opens : i <= j
        closes == {i \in 1..Len(responseText) : responseText[i] = "}" /\ i > first}
        last == CHOOSE i \in closes : \A j \in closes : j <= i
    IN IF opens = {} \/ closes = {}
       THEN [found |-> FALSE, str |-> <<>>]
       ELSE [found |-> TRUE, str |-> SubSeq(responseText, first, last)]

(* responseText.match(/Output:\s*(\{[\s\S]*\})/) of the Ollama branch *)
OutputMatch(responseText) ==
    LET outs == {i \in 1..Len(responseText) - 1 : responseText[i] = "Output:" /\ responseText[i + 1] = "{"
                                             /\ \E j \in i + 2..Len(responseText) : responseText[j] = "}"}
        first == CHOOSE i \in outs : \A j \in outs : i <= j
    IN IF outs = {} THEN [found |-> FALSE, str |-> <<>>]
       ELSE JsonMatch(SubSeq(responseText, first + 1, Len(responseText)))

(* JSON.parse: an object, or a SyntaxError (ok = FALSE) *)
JsonParse(str, nowT) ==
    IF Len(str) = 3 /\ str[1] = "{" /\ str[2] \in BodyNames /\ str[3] = "}"
    THEN [ok |-> TRUE, value |-> Body(str[2], nowT)]
    ELSE IF str = <<"{", "}">> THEN [ok |-> TRUE, value |-> [x \in {} |-> 0]]
    ELSE [ok |-> FALSE, value |-> [x \in {} |-> 0]]

(* eventData.title && eventData.start && eventData.end *)
HasRequiredFields(ev) == {"title", "start", "end"} \subseteq DOMAIN ev

----------------------------------------------------------------------------
(* The availability check (middleware/auth.ts:164-262).                     *)
(* A calendar event is [allDay, start, end]: a timed event carries instants *)
(* (start.dateTime), an all-day event carries day numbers (start.date, the  *)
(* end date being the day after its last day).                              *)

(* new Date(event.start?.dateTime || event.start?.date || ''): a date-only  *)
(* string is read as midnight UTC of that day.                              *)
EventStart(e) == IF e.allDay THEN e.start * MinutesPerDay ELSE e.start
EventEnd(e) == IF e.allDay THEN e.end * MinutesPerDay ELSE e.end

(* The test with its second comparison left out *)
IsConflictStartOnly(e, requestedStart, requestedEnd) ==
    EventStart(e) < requestedEnd

(* The test with closed intervals *)
IsConflictClosed(e, requestedStart, requestedEnd) ==
    EventStart(e) <= requestedEnd /\ EventEnd(e) >= requestedStart

(* The test asking whether the event starts inside the requested interval *)
IsConflictStartsInside(e, requestedStart, requestedEnd) ==
    EventStart(e) >= requestedStart /\ EventStart(e) < requestedEnd

(* auth.ts:191-199, the filter's test *)
IsConflict(e, requestedStart, requestedEnd) ==
    EventStart(e) < requestedEnd /\ EventEnd(e) > requestedStart

(* auth.ts:241-245 *)
hasConflict(events, testStart, testEnd) ==
    \E i \in 1..Len(events) : EventStart(events[i]) < testEnd /\ EventEnd(events[i]) > testStart

FirstHour == 9
LastHour == 17
HourStep == 2
MaxSuggestions == 3

(* The loop without the break of line 249 *)
RECURSIVE ScanHoursAll(_, _, _, _, _, _)
ScanHoursAll(hour, sameDay, duration, events, suggestions, off) ==
    IF hour > LastHour THEN suggestions
    ELSE LET testStart == SetHours(sameDay, hour, 0, off)
             testEnd == testStart + duration
         IN ScanHoursAll(hour + HourStep, sameDay, duration, events,
                         IF ~hasConflict(events, testStart, testEnd)
                         THEN Append(suggestions, testStart) ELSE suggestions, off)

(* auth.ts:235-251, the loop over the hours of the same day *)
RECURSIVE ScanHours(_, _, _, _, _, _)
ScanHours(hour, sameDay, duration, events, suggestions, off) ==
    IF hour > LastHour THEN suggestions
    ELSE LET testStart == SetHours(sameDay, hour, 0, off)
             testEnd == testStart + duration
         IN IF ~hasConflict(events, testStart, testEnd)
            THEN IF Len(suggestions) + 1 >= MaxSuggestions
                 THEN Append(suggestions, testStart)
                 ELSE ScanHours(hour + HourStep, sameDay, duration, events,
                                Append(suggestions, testStart), off)
            ELSE ScanHours(hour + HourStep, sameDay, duration, events, suggestions, off)

(* The function testing the next day's slot like the slots of the day *)
generateSuggestedTimesTestingNextDay(originalStart, originalEnd, events, off) ==
    LET duration == originalEnd - originalStart
        sameDay == SetHours(originalStart, FirstHour, 0, off)
        suggestions == ScanHours(FirstHour, sameDay, duration, events, <<>>, off)
        nextDay == SetHours(originalStart + MinutesPerDay, FirstHour, 0, off)
    IN IF Len(suggestions) = 0
       THEN (IF hasConflict(events, nextDay, nextDay + duration) THEN <<>> ELSE <<nextDay>>)
       ELSE suggestions

(* auth.ts:225-262 *)
generateSuggestedTimes(originalStart, originalEnd, events, off) ==
    LET duration == originalEnd - originalStart
        sameDay == SetHours(originalStart, FirstHour, 0, off)
        suggestions == ScanHours(FirstHour, sameDay, duration, events, <<>>, off)
        nextDay == SetHours(originalStart + MinutesPerDay, FirstHour, 0, off)
    IN IF Len(suggestions) = 0 THEN <<nextDay>> ELSE suggestions

(* existingEvents.filter(...), auth.ts:191-199 *)
RECURSIVE FilterConflicts(_, _, _)
FilterConflicts(events, requestedStart, requestedEnd) ==
    IF Len(events) = 0 THEN <<>>
    ELSE (IF IsConflict(Head(events), requestedStart, requestedEnd)
          THEN <<Head(events)>> ELSE <<>>)
         \o FilterConflicts(Tail(events), requestedStart, requestedEnd)

Available == [isAvailable |-> TRUE, conflicts |-> <<>>]

(* The check without the return of lines 201-206 *)
checkAvailabilityAlwaysSuggests(startTime, endTime, items, off) ==
    IF Len(items) = 0 THEN Available
    ELSE LET conflicts == FilterConflicts(items, startTime, endTime)
         IN [isAvailable |-> Len(conflicts) = 0,
             conflicts |-> conflicts,
             suggestedTimes |-> generateSuggestedTimes(startTime, endTime, items, off)]

(* The check handing only the conflicts to generateSuggestedTimes *)
checkAvailabilityAroundConflicts(startTime, endTime, items, off) ==
    IF Len(items) = 0 THEN Available
    ELSE LET conflicts == FilterConflicts(items, startTime, endTime)
         IN IF Len(conflicts) = 0 THEN Available
            ELSE [isAvailable |-> FALSE,
                  conflicts |-> conflicts,
                  suggestedTimes |->
                      generateSuggestedTimes(startTime, endTime, conflicts, off)]

(* checkAvailability once events.list has answered, auth.ts:181-215 *)
checkAvailability(startTime, endTime, items, off) ==
    IF Len(items) = 0 THEN Available
    ELSE LET conflicts == FilterConflicts(items, startTime, endTime)
         IN IF Len(conflicts) = 0 THEN Available
            ELSE [isAvailable |-> FALSE,
                  conflicts |-> conflicts,
                  suggestedTimes |-> generateSuggestedTimes(startTime, endTime, items, off)]

(* calendar.events.list({timeMin, timeMax, singleEvents, orderBy: 'startTime'}),  *)
(* auth.ts:173-179: the events of the calendar that end after timeMin and start   *)
(* before timeMax, in the order of the calendar, which is kept by start time.     *)
(* The calendar holds an all-day event from local midnight to local midnight of   *)
(* its own timezone, calOff.                                                       *)
TrueStart(e, calOff) == IF e.allDay THEN e.start * MinutesPerDay - calOff ELSE e.start
TrueEnd(e, calOff) == IF e.allDay THEN e.end * MinutesPerDay - calOff ELSE e.end

RECURSIVE ListEvents(_, _, _, _)
ListEvents(cal, timeMin, timeMax, calOff) ==
    IF Len(cal) = 0 THEN <<>>
    ELSE (IF TrueEnd(Head(cal), calOff) > timeMin /\ TrueStart(Head(cal), calOff) < timeMax
          THEN <<Head(cal)>> ELSE <<>>)
         \o ListEvents(Tail(cal), timeMin, timeMax, calOff)

----------------------------------------------------------------------------
(* Requests *)

MaxEvents == 2         \* largest number of events on the calendar

UserTimezones == {"absent", "America/New_York", "Asia/Tokyo", "Mars/Phobos"}
ServerTimezones == {"UTC", "America/New_York"}
Nows == { 10 * MinutesPerDay + 2 * MinutesPerHour, 10 * MinutesPerDay + 12 * MinutesPerHour }

NoReply == [threw |-> FALSE, tokens |-> <<>>]
Pending == [kind |-> "pending"]
Nothing == [none |-> TRUE]

(* The start of the server (index.ts:14-26). The variables of the process   *)
(* come from the shell that starts it and from the file backend/.env.       *)
(* The imports of lines 14-19 are evaluated first, and with them the body   *)
(* of nlpService.ts, which builds its clients from process.env as the shell *)
(* left it; dotenv.config() of line 26 then adds the variables of the file  *)
(* that the shell has not set.                                              *)
EnvNames == {"OPENAI_API_KEY", "NODE_ENV"}
Environments ==
    [OPENAI_API_KEY : {"absent", "sk-key"}, NODE_ENV : {"absent", "production"}]

(* nlpService.ts:5-6 *)
ImportNlpService(env) ==
    [ollama |-> env.NODE_ENV # "production",
     openai |-> env.OPENAI_API_KEY # "absent"]

(* index.ts:26, dotenv.config(): a variable already set is kept *)
dotenvConfig(env, file) ==
    [k \in EnvNames |-> IF env[k] = "absent" THEN file[k] ELSE env[k]]

(* router.get('/nlp-status') (routes/events.ts:398-438) *)
NoReport == [none |-> TRUE]
nlpStatus(env) ==
    LET openaiAvailable == env.OPENAI_API_KEY # "absent"            \* line 404
        ollamaAvailable == env.NODE_ENV # "production"               \* line 411
        activeService == IF openaiAvailable THEN "OpenAI"            \* line 420
                         ELSE IF ollamaAvailable THEN "Ollama" ELSE "Fallback"
    IN [environment |-> env.NODE_ENV,
        openai_available |-> openaiAvailable,
        ollama_available |-> ollamaAvailable,
        fallback_available |-> TRUE,
        active_service |-> activeService]

(* authenticateToken (middleware/auth.ts:42-135) *)

ReplaceFirst(s, w, by) ==                       \* s.replace(w, by), w a string
    IF ~Includes(s, w) THEN s
    ELSE LET p == CHOOSE q \in 0..(Len(s) - Len(w)) :
                      /\ SubSeq(s, q + 1, q + Len(w)) = w
                      /\ \A r \in 0..(q - 1) : SubSeq(s, r + 1, r + Len(w)) # w
         IN SubSeq(s, 1, p) \o by \o SubSeq(s, p + Len(w) + 1, Len(s))

ValidTokens == {"good"}      \* the tokens jwt.verify accepts under JWT_SECRET
Payload(token) == [sub |-> token]
NoUser == [none |-> TRUE]
Authorizations == {"absent", "Bearer good", "Bearer evil", "Bearer ", "evil"}

(* The middleware that calls next with whatever the token decodes to *)
authenticateTokenUnverified(header) ==
    LET token == IF header = "absent" THEN "" ELSE ReplaceFirst(header, "Bearer ", "")
    IN IF token = ""
       THEN [next |-> FALSE, status |-> 401, error |-> "No token provided"]
       ELSE [next |-> TRUE, user |-> Payload(token)]

authenticateToken(header) ==
    LET token == IF header = "absent" THEN ""                        \* line 60
                 ELSE ReplaceFirst(header, "Bearer ", "")
    IN IF token = ""                                                 \* lines 70-73
       THEN [next |-> FALSE, status |-> 401, error |-> "No token provided"]
       ELSE IF token \in ValidTokens                                 \* lines 99-121
       THEN [next |-> TRUE, user |-> Payload(token)]
       ELSE [next |-> FALSE, status |-> 401, error |-> "Invalid token"]   \* line 133

Init ==
    /\ authorization \in Authorizations
    /\ user = NoUser
    /\ text \in Texts
    /\ extracted = Extracted[text]
    /\ userTimezone \in UserTimezones
    /\ serverTz \in ServerTimezones
    /\ now \in Nows
    /\ \E shell \in Environments, file \in Environments :
          /\ openai = ImportNlpService(shell).openai
          /\ ollama = ImportNlpService(shell).ollama
          /\ processEnv = dotenvConfig(shell, file)
    /\ statusReport = NoReport
    /\ pc = "auth"
    /\ calls = <<>>
    /\ inflight = {}
    /\ reply = NoReply
    /\ eventData = Pending
    /\ via = "none"
    /\ calendar = <<>>
    /\ existingEvents = <<>>
    /\ listFailed = FALSE
    /\ availability = Nothing
    /\ response = [status |-> 0]
    /\ inserted = <<>>

ServerOffset == TzOffset(serverTz)
Fallback == SmartFallbackOf(extracted, text, now, ServerOffset)

(* router.post('/process', authenticateToken, ...): the middleware runs     *)
(* before the handler of the route.                                         *)
Authenticate ==
    /\ pc = "auth"
    /\ \E out \in {authenticateToken(authorization)} :
          IF out.next
          THEN /\ user' = out.user
               /\ pc' = "process"
               /\ UNCHANGED response
          ELSE /\ response' = [status |-> out.status, error |-> out.error]
               /\ pc' = "denied"
               /\ UNCHANGED user
    /\ UNCHANGED <<authorization, text, extracted, inserted, userTimezone, serverTz, now, openai,
                   ollama, processEnv, statusReport, calls, inflight, reply, eventData, via, calendar, existingEvents,
                   listFailed, availability>>

----------------------------------------------------------------------------
(* processTextToEvent (nlpService.ts:8-121) *)

(* Lines 11-53: const timezone = userTimezone || 'UTC'; toLocaleString with *)
(* a timeZone that is no IANA name throws a RangeError, before the try.     *)
BuildPrompt ==
    /\ pc = "process"
    /\ LET timezone == IF userTimezone = "absent" THEN "UTC" ELSE userTimezone
       IN IF IsTimeZone(timezone)
          THEN /\ pc' = "try"
               /\ UNCHANGED eventData
          ELSE /\ pc' = "settled"
               /\ eventData' = [kind |-> "rejected"]
    /\ UNCHANGED <<authorization, user, text, extracted, inserted, userTimezone, serverTz, now, openai, ollama, processEnv, statusReport, calls, inflight, reply,
                   via, calendar, existingEvents, listFailed, availability, response>>

(* The call, issued once more after a reply has arrived *)
CallOpenAIRetrying ==
    /\ pc \in {"try", "gotOpenAI"}
    /\ openai
    /\ Len(calls) < 2
    /\ pc' = "awaitOpenAI"
    /\ calls' = Append(calls, "openai")
    /\ inflight' = inflight \cup {"openai"}
    /\ UNCHANGED <<authorization, user, text, extracted, inserted, userTimezone, serverTz, now, openai, ollama, processEnv, statusReport, reply, eventData,
                   via, calendar, existingEvents, listFailed, availability, response>>

(* Lines 57-63: if (openai) await openai.chat.completions.create(...) *)
CallOpenAI ==
    /\ pc = "try"
    /\ openai
    /\ pc' = "awaitOpenAI"
    /\ calls' = Append(calls, "openai")
    /\ inflight' = inflight \cup {"openai"}
    /\ UNCHANGED <<authorization, user, text, extracted, inserted, userTimezone, serverTz, now, openai, ollama, processEnv, statusReport, reply, eventData,
                   via, calendar, existingEvents, listFailed, availability, response>>

OpenAIReplies ==
    /\ pc = "awaitOpenAI"
    /\ \E r \in Replies : reply' = [threw |-> FALSE, tokens |-> r]
    /\ pc' = "gotOpenAI"
    /\ inflight' = inflight \ {"openai"}
    /\ UNCHANGED <<authorization, user, text, extracted, inserted, userTimezone, serverTz, now, openai, ollama, processEnv, statusReport, calls, eventData,
                   via, calendar, existingEvents, listFailed, availability, response>>

OpenAIThrows ==
    /\ pc = "awaitOpenAI"
    /\ reply' = [threw |-> TRUE, tokens |-> <<>>]
    /\ pc' = "gotOpenAI"
    /\ inflight' = inflight \ {"openai"}
    /\ UNCHANGED <<authorization, user, text, extracted, inserted, userTimezone, serverTz, now, openai, ollama, processEnv, statusReport, calls, eventData,
                   via, calendar, existingEvents, listFailed, availability, response>>

(* Lines 65-78 and 116-120: a thrown call lands in the catch; a reply with  *)
(* no usable event leaves the if, the try and the function with no return. *)
OpenAIBranch(r, fallback) ==
    LET jsonMatch == JsonMatch(r.tokens)
        parsed == JsonParse(jsonMatch.str, now)
    IN IF r.threw THEN [kind |-> "event", ev |-> fallback, by |-> "fallback"]
       ELSE IF jsonMatch.found /\ parsed.ok /\ HasRequiredFields(parsed.value)
       THEN [kind |-> "event", ev |-> parsed.value, by |-> "openai"]
       ELSE [kind |-> "undefined", by |-> "none"]

HandleOpenAI ==
    /\ pc = "gotOpenAI"
    /\ \E out \in {OpenAIBranch(reply, Fallback)} :
          /\ eventData' = IF out.kind = "event" THEN [kind |-> "event", ev |-> out.ev]
                          ELSE [kind |-> "undefined"]
          /\ via' = out.by
    /\ pc' = "settled"
    /\ reply' = NoReply
    /\ UNCHANGED <<authorization, user, text, extracted, inserted, userTimezone, serverTz, now, openai, ollama, processEnv, statusReport, calls, inflight,
                   calendar, existingEvents, listFailed, availability, response>>

(* Lines 79-84: else if (ollama) await ollama.generate(...) *)
CallOllama ==
    /\ pc = "try"
    /\ ~openai
    /\ ollama
    /\ pc' = "awaitOllama"
    /\ calls' = Append(calls, "ollama")
    /\ inflight' = inflight \cup {"ollama"}
    /\ UNCHANGED <<authorization, user, text, extracted, inserted, userTimezone, serverTz, now, openai, ollama, processEnv, statusReport, reply, eventData,
                   via, calendar, existingEvents, listFailed, availability, response>>

OllamaReplies ==
    /\ pc = "awaitOllama"
    /\ \E r \in Replies : reply' = [threw |-> FALSE, tokens |-> r]
    /\ pc' = "gotOllama"
    /\ inflight' = inflight \ {"ollama"}
    /\ UNCHANGED <<authorization, user, text, extracted, inserted, userTimezone, serverTz, now, openai, ollama, processEnv, statusReport, calls, eventData,
                   via, calendar, existingEvents, listFailed, availability, response>>

OllamaThrows ==
    /\ pc = "awaitOllama"
    /\ reply' = [threw |-> TRUE, tokens |-> <<>>]
    /\ pc' = "gotOllama"
    /\ inflight' = inflight \ {"ollama"}
    /\ UNCHANGED <<authorization, user, text, extracted, inserted, userTimezone, serverTz, now, openai, ollama, processEnv, statusReport, calls, eventData,
                   via, calendar, existingEvents, listFailed, availability, response>>

(* Lines 86-112 and 116-120: every failure is thrown into the catch *)
OllamaBranch(r, fallback) ==
    LET first == JsonMatch(r.tokens)
        jsonMatch == IF first.found THEN first ELSE OutputMatch(r.tokens)
        parsed == JsonParse(jsonMatch.str, now)
    IN IF ~r.threw /\ jsonMatch.found /\ parsed.ok /\ HasRequiredFields(parsed.value)
       THEN [kind |-> "event", ev |-> parsed.value, by |-> "ollama"]
       ELSE [kind |-> "event", ev |-> fallback, by |-> "fallback"]

HandleOllama ==
    /\ pc = "gotOllama"
    /\ \E out \in {OllamaBranch(reply, Fallback)} :
          /\ eventData' = [kind |-> "event", ev |-> out.ev]
          /\ via' = out.by
    /\ pc' = "settled"
    /\ reply' = NoReply
    /\ UNCHANGED <<authorization, user, text, extracted, inserted, userTimezone, serverTz, now, openai, ollama, processEnv, statusReport, calls, inflight,
                   calendar, existingEvents, listFailed, availability, response>>

(* Lines 113-115: neither service is configured *)
NoService ==
    /\ pc = "try"
    /\ ~openai
    /\ ~ollama
    /\ eventData' = [kind |-> "event", ev |-> Fallback]
    /\ via' = "fallback"
    /\ pc' = "settled"
    /\ UNCHANGED <<authorization, user, text, extracted, inserted, userTimezone, serverTz, now, openai, ollama, processEnv, statusReport, calls, inflight, reply,
                   calendar, existingEvents, listFailed, availability, response>>

----------------------------------------------------------------------------
(* router.post('/process') (routes/events.ts:298-381) *)

(* The route issuing the insert of the route that creates events *)
AfterProcessInserting ==
    /\ pc = "settled"
    /\ IF eventData.kind = "event"
       THEN /\ pc' = "awaitList"
            /\ calls' = calls \o <<"events.insert", "events.list">>
            /\ inserted' = Append(inserted, eventData.ev)
            /\ UNCHANGED response
       ELSE /\ pc' = "done"
            /\ response' = [status |-> 500]
            /\ UNCHANGED <<calls, inserted>>
    /\ UNCHANGED <<authorization, user, text, extracted, userTimezone, serverTz, now, openai, ollama, processEnv, statusReport, inflight, reply,
                   eventData, via, calendar, existingEvents, listFailed, availability>>

(* Lines 322-352 and 369-380. A rejected processTextToEvent, and the read   *)
(* of eventData.start when eventData is undefined, both land in the catch,  *)
(* which answers 500; otherwise checkAvailability starts and lists the      *)
(* calendar between eventData.start and eventData.end (auth.ts:173-179).    *)
AfterProcess ==
    /\ pc = "settled"
    /\ IF eventData.kind = "event"
       THEN /\ pc' = "awaitList"
            /\ calls' = Append(calls, "events.list")
            /\ UNCHANGED response
       ELSE /\ pc' = "done"
            /\ response' = [status |-> 500]
            /\ UNCHANGED calls
    /\ UNCHANGED <<authorization, user, text, extracted, inserted, userTimezone, serverTz, now, openai, ollama, processEnv, statusReport, inflight, reply, eventData,
                   via, calendar, existingEvents, listFailed, availability>>

(* The calendars the check is run against: up to MaxEvents of the events    *)
(* below, placed around the candidate [s, e), kept by start time.           *)
CalendarPool(s, e, off, calOff) ==
    LET nine == SetHours(s, FirstHour, 0, off)
    IN << [allDay |-> FALSE, start |-> s - 60, end |-> s],
          [allDay |-> FALSE, start |-> s - 30, end |-> s + 30],
          [allDay |-> TRUE, start |-> LocalDay(s, calOff), end |-> LocalDay(s, calOff) + 1],
          [allDay |-> FALSE, start |-> nine, end |-> nine + 25 * MinutesPerHour],
          [allDay |-> FALSE, start |-> nine, end |-> nine + 6 * MinutesPerHour],
          [allDay |-> FALSE, start |-> e, end |-> e + 60] >>

RECURSIVE Pick(_, _, _)
Pick(pool, chosen, i) ==
    IF i > Len(pool) THEN <<>>
    ELSE (IF i \in chosen THEN <<pool[i]>> ELSE <<>>) \o Pick(pool, chosen, i + 1)

Calendars(s, e, off, calOff) ==
    LET pool == CalendarPool(s, e, off, calOff)
    IN { SortSeq(Pick(pool, chosen, 1),
                 LAMBDA a, b : TrueStart(a, calOff) < TrueStart(b, calOff)) :
         chosen \in {c \in SUBSET (1..Len(pool)) : Cardinality(c) <= MaxEvents} }

CalendarOffset == TzOffset(IF userTimezone = "absent" THEN "UTC" ELSE userTimezone)

(* auth.ts:181-215 and events.ts:362-367: the list answers, the check is    *)
(* computed and the route answers 200 with the event and the verdict.       *)
ListReturns ==
    /\ pc = "awaitList"
    /\ \E cal \in Calendars(eventData.ev.start, eventData.ev.end, ServerOffset, CalendarOffset) :
       \E items \in {ListEvents(cal, eventData.ev.start, eventData.ev.end, CalendarOffset)} :
       \E result \in {checkAvailability(eventData.ev.start, eventData.ev.end, items,
                                         ServerOffset)} :
             /\ calendar' = cal
             /\ existingEvents' = items
             /\ availability' = result
             /\ response' = [status |-> 200, event |-> eventData.ev, availability |-> result]
    /\ pc' = "done"
    /\ UNCHANGED <<authorization, user, text, extracted, inserted, userTimezone, serverTz, now, openai, ollama, processEnv, statusReport, calls, inflight, reply,
                   eventData, via, listFailed>>

(* The list throws and the error reaches the catch of the route *)
ListThrowsPropagates ==
    /\ pc = "awaitList"
    /\ listFailed' = TRUE
    /\ response' = [status |-> 500]
    /\ pc' = "done"
    /\ UNCHANGED <<authorization, user, text, extracted, inserted, userTimezone, serverTz, now, openai, ollama, processEnv, statusReport, calls, inflight,
                   reply, eventData, via, calendar, existingEvents, availability>>

(* auth.ts:216-222: the list throws, the check answers available *)
ListThrows ==
    /\ pc = "awaitList"
    /\ listFailed' = TRUE
    /\ availability' = Available
    /\ response' = [status |-> 200, event |-> eventData.ev, availability |-> Available]
    /\ pc' = "done"
    /\ UNCHANGED <<authorization, user, text, extracted, inserted, userTimezone, serverTz, now, openai, ollama, processEnv, statusReport, calls, inflight, reply,
                   eventData, via, calendar, existingEvents>>

----------------------------------------------------------------------------
(* router.post('/') (routes/events.ts:153-270): the request that creates   *)
(* the event, sent by the client once it holds the answer of /process.     *)

(* Lines 160-224: the body carries the event; calendar.events.insert is    *)
(* called with it.                                                         *)
CreateEvent ==
    /\ pc = "done"
    /\ response.status = 200
    /\ pc' = "awaitInsert"
    /\ calls' = Append(calls, "events.insert")
    /\ UNCHANGED <<authorization, user, text, extracted, inserted, userTimezone, serverTz, now, openai, ollama, processEnv, statusReport,
                   inflight, reply, eventData, via, calendar, existingEvents, listFailed,
                   availability, response>>

(* Line 234: res.json(response.data) *)
InsertReturns ==
    /\ pc = "awaitInsert"
    /\ inserted' = Append(inserted, eventData.ev)
    /\ response' = [status |-> 200, data |-> eventData.ev]
    /\ pc' = "created"
    /\ UNCHANGED <<authorization, user, text, extracted, userTimezone, serverTz, now, openai, ollama, processEnv, statusReport, calls, inflight,
                   reply, eventData, via, calendar, existingEvents, listFailed, availability>>

(* Lines 236-269: the insert throws, the route answers 500 *)
InsertThrows ==
    /\ pc = "awaitInsert"
    /\ response' = [status |-> 500]
    /\ pc' = "created"
    /\ UNCHANGED <<authorization, user, text, extracted, inserted, userTimezone, serverTz, now, openai, ollama, processEnv, statusReport, calls,
                   inflight, reply, eventData, via, calendar, existingEvents, listFailed,
                   availability>>

(* GET /api/events/nlp-status (routes/events.ts:398-438): the route has no  *)
(* middleware and reads process.env alone. The request is served once the   *)
(* request to /process has been answered.                                   *)
NlpStatus ==
    /\ response.status # 0
    /\ statusReport = NoReport
    /\ statusReport' = nlpStatus(processEnv)
    /\ UNCHANGED <<authorization, user, text, extracted, inserted, userTimezone, serverTz, now,
                   openai, ollama, processEnv, pc, calls, inflight, reply, eventData, via,
                   calendar, existingEvents, listFailed, availability, response>>

Next ==
    \/ Authenticate
    \/ BuildPrompt
    \/ CallOpenAI
    \/ OpenAIReplies
    \/ OpenAIThrows
    \/ HandleOpenAI
    \/ CallOllama
    \/ OllamaReplies
    \/ OllamaThrows
    \/ HandleOllama
    \/ NoService
    \/ AfterProcess
    \/ ListReturns
    \/ ListThrows
    \/ CreateEvent
    \/ InsertReturns
    \/ InsertThrows
    \/ NlpStatus

Spec == Init /\ [][Next]_vars

----------------------------------------------------------------------------
(* Properties *)

Settled == pc \in {"settled", "awaitList", "done"}     \* processTextToEvent is over
Range(seq) == {seq[i] : i \in 1..Len(seq)}
RequestTimezone == IF userTimezone = "absent" THEN "UTC" ELSE userTimezone
RequestOffset == TzOffset(RequestTimezone)

(* C1: processTextToEvent resolves to an event for every text, every       *)
(* outcome of the generative call and every configuration of the           *)
(* strategies, and the route answers with an event and a verdict, never    *)
(* with a 500. Stated for the requests whose timezone is a timezone.       *)
C1_AlwaysAnEvent ==
    (IsTimeZone(RequestTimezone) /\ Settled) =>
        /\ eventData.kind = "event"
        /\ pc = "done" => response.status = 200

(* C2: every event processTextToEvent returns for a non-empty text starts  *)
(* strictly before it ends, whichever strategy produced it.                *)
C2_StartBeforeEnd ==
    (Settled /\ eventData.kind = "event" /\ text # "") =>
        eventData.ev.start < eventData.ev.end

(* C3: the strategies are attempted in the order OpenAI, Ollama, fallback: *)
(* with both services configured, once OpenAI has been called and          *)
(* processTextToEvent is over without OpenAI having produced the event,    *)
(* Ollama has been called.                                                 *)
C3_OllamaAfterOpenAI ==
    ("openai" \in Range(calls) /\ ollama /\ Settled /\ via # "openai") =>
        "ollama" \in Range(calls)

(* C4: every event processTextToEvent returns carries title, start, end,   *)
(* location and description, and the description of the deterministic path *)
(* is the input text.                                                      *)
C4_FiveFields ==
    (Settled /\ eventData.kind = "event") =>
        /\ {"title", "start", "end", "location", "description"} \subseteq DOMAIN eventData.ev
        /\ via = "fallback" => eventData.ev.description = text

ClockOfDay(t, off) == (t + off) % MinutesPerDay        \* minutes after local midnight

(* C5: on the deterministic path the start is the resolved date and clock  *)
(* time read in the timezone of the request: 14:00 of that timezone when   *)
(* the text names no clock time, and 15:00 of that timezone today for      *)
(* "meeting at 3pm today", whatever the timezone of the server.            *)
C5_StartInRequestTimezone ==
    (Settled /\ via = "fallback") =>
        /\ ~extracted.clock.found =>
              ClockOfDay(eventData.ev.start, RequestOffset) = 14 * MinutesPerHour
        /\ text = "meeting at 3pm today" =>
              /\ ClockOfDay(eventData.ev.start, RequestOffset) = 15 * MinutesPerHour
              /\ LocalDay(eventData.ev.start, RequestOffset) = LocalDay(now, RequestOffset)

(* C6: for "gym session tomorrow for 2 hours at the arc gym" the           *)
(* deterministic extractor returns the title "Gym Session", the location   *)
(* "Arc Gym", a duration of 2 hours and a start at 14:00 (local time of    *)
(* the server) on the day after now.                                       *)
C6_GymExample ==
    (Settled /\ via = "fallback"
       /\ text = "gym session tomorrow for 2 hours at the arc gym") =>
        /\ eventData.ev.title = "Gym Session"
        /\ eventData.ev.location = "Arc Gym"
        /\ eventData.ev.end - eventData.ev.start = 2 * MinutesPerHour
        /\ ClockOfDay(eventData.ev.start, ServerOffset) = 14 * MinutesPerHour
        /\ LocalDay(eventData.ev.start, ServerOffset) = LocalDay(now, ServerOffset) + 1

(* The hours a text declares: the number n of its first "<n> <unit>",     *)
(* digits, then any whitespace, then a word of units; 1 if it has none.    *)
DigitRunEnd(txt, i) ==
    CHOOSE j \in i..Len(txt) :
        /\ \A x \in i..j : IsDigit(CharAt(txt, x))
        /\ j = Len(txt) \/ ~IsDigit(CharAt(txt, j + 1))
UnitAt(txt, k, units) ==
    \E u \in units :
        /\ k + Len(u) - 1 <= Len(txt)
        /\ ToLowerCase(SubSeq(txt, k, k + Len(u) - 1)) = u
HoursPhrases(txt, units) ==
    { i \in 1..Len(txt) :
        /\ IsDigit(CharAt(txt, i))
        /\ \E k \in DigitRunEnd(txt, i) + 1..Len(txt) :
              /\ \A x \in DigitRunEnd(txt, i) + 1..k - 1 : IsSpace(CharAt(txt, x))
              /\ UnitAt(txt, k, units) }
DeclaredHours(txt, units) ==
    IF HoursPhrases(txt, units) = {} THEN 1
    ELSE LET i == CHOOSE x \in HoursPhrases(txt, units) :
                      \A y \in HoursPhrases(txt, units) : x <= y
         IN ParseInt(SubSeq(txt, i, DigitRunEnd(txt, i)))

Checked == pc = "done" /\ response.status = 200 /\ ~listFailed   \* the list answered
Candidate == eventData.ev

(* C8: the conflicts checkAvailability returns are exactly the fetched     *)
(* events e with e.start < candidate.end and e.end > candidate.start,      *)
(* in the order in which the listing supplied them.                        *)
C8_ConflictsAreTheOverlapping ==
    Checked =>
        availability.conflicts
            = SelectSeq(existingEvents,
                        LAMBDA e : /\ EventStart(e) < Candidate.end
                                   /\ EventEnd(e) > Candidate.start)

C8_SomeKeptSomeDropped ==
    /\ Checked
    /\ Len(existingEvents) = 2
    /\ Len(availability.conflicts) = 1

(* The slots generateSuggestedTimes tests, auth.ts:235-238 *)
Slots ==
    { SetHours(Candidate.start, h, 0, ServerOffset) :
        h \in {x \in FirstHour..LastHour : (x - FirstHour) % HourStep = 0} }
Touches(e, from, to) == EventEnd(e) <= from \/ EventStart(e) >= to

(* C9: the overlap test is half-open. A fetched event that ends no later   *)
(* than the candidate starts, or starts no earlier than it ends, is never  *)
(* a conflict; and a tested slot that no fetched event reaches into is     *)
(* suggested, unless three earlier slots already are.                      *)
C9_HalfOpenOverlap ==
    Checked =>
        /\ \A e \in Range(existingEvents) :
              Touches(e, Candidate.start, Candidate.end)
                  => e \notin Range(availability.conflicts)
        /\ ~availability.isAvailable =>
              \A t \in Slots :
                  (\A e \in Range(existingEvents) :
                       Touches(e, t, t + (Candidate.end - Candidate.start)))
                  => \/ t \in Range(availability.suggestedTimes)
                     \/ Cardinality({u \in Range(availability.suggestedTimes) : u < t})
                            >= MaxSuggestions

C9_EndsWhereCandidateStarts ==
    /\ Checked
    /\ Len(availability.conflicts) = 1
    /\ \E e \in Range(existingEvents) :
          /\ EventEnd(e) = Candidate.start
          /\ e \notin Range(availability.conflicts)

(* C10: an all-day event counts as the interval from local midnight of its *)
(* date to the next local midnight in the timezone of the user: it is a    *)
(* conflict exactly when the candidate overlaps that interval.             *)
C10_AllDayIsTheLocalDay ==
    Checked =>
        \A e \in Range(existingEvents) :
            e.allDay =>
                (e \in Range(availability.conflicts)
                    <=> /\ e.start * MinutesPerDay - RequestOffset < Candidate.end
                        /\ e.end * MinutesPerDay - RequestOffset > Candidate.start)

Overlaps(e, from, to) == EventStart(e) < to /\ EventEnd(e) > from
Answered == pc = "done" /\ response.status = 200     \* checkAvailability resolved

(* C12: when no fetched event overlaps the candidate, the empty list       *)
(* included, checkAvailability resolves with isAvailable true, no          *)
(* conflicts and no suggested times; and in every result isAvailable is    *)
(* true exactly when conflicts is empty.                                   *)
C12_AvailableWithoutOverlap ==
    Answered =>
        /\ availability.isAvailable <=> availability.conflicts = <<>>
        /\ (\A e \in Range(existingEvents) : ~Overlaps(e, Candidate.start, Candidate.end))
              => availability = [isAvailable |-> TRUE, conflicts |-> <<>>]

C12_FetchedButFree ==
    /\ Checked
    /\ Len(existingEvents) >= 1
    /\ \A e \in Range(existingEvents) : ~Overlaps(e, Candidate.start, Candidate.end)
    /\ availability.isAvailable

Duration == Candidate.end - Candidate.start
SlotIsFree(t) == \A e \in Range(existingEvents) : ~Overlaps(e, t, t + Duration)

(* C13: when a fetched event overlaps the candidate, checkAvailability     *)
(* resolves with isAvailable false, the conflicts, and one to three        *)
(* suggested times; a suggested slot of the day is free, for the duration  *)
(* of the candidate, of every fetched event, conflicting or not, and a     *)
(* suggestion outside the slots of the day is made only when none of them  *)
(* is free of every fetched event.                                         *)
C13_UnavailableWithSuggestions ==
    (Checked /\ \E e \in Range(existingEvents) : Overlaps(e, Candidate.start, Candidate.end)) =>
        /\ ~availability.isAvailable
        /\ availability.conflicts # <<>>
        /\ Len(availability.suggestedTimes) \in 1..MaxSuggestions
        /\ \A t \in Range(availability.suggestedTimes) :
              IF t \in Slots THEN SlotIsFree(t)
              ELSE \A u \in Slots : ~SlotIsFree(u)

C13_BlockedByNonConflicting ==
    /\ Checked
    /\ ~availability.isAvailable
    /\ \E e \in Range(existingEvents) :
          /\ e \notin Range(availability.conflicts)
          /\ \E t \in Slots : Overlaps(e, t, t + Duration)

FreeSlots == {t \in Slots : SlotIsFree(t)}
SameDaySuggestions == SelectSeq(availability.suggestedTimes, LAMBDA t : t \in Slots)

(* C14: the suggestions generateSuggestedTimes takes from the day of the   *)
(* candidate are exactly the earliest, up to three, of the starts at       *)
(* 9, 11, 13, 15 and 17 o'clock whose interval of the candidate's duration *)
(* overlaps no fetched event, in ascending order; it never returns more    *)
(* than three entries.                                                     *)
C14_EarliestFreeSlots ==
    (Checked /\ ~availability.isAvailable) =>
        /\ Len(availability.suggestedTimes) <= 3
        /\ \A i \in 1..Len(SameDaySuggestions) - 1 :
              SameDaySuggestions[i] < SameDaySuggestions[i + 1]
        /\ Range(SameDaySuggestions)
              = {t \in FreeSlots : Cardinality({u \in FreeSlots : u < t}) < 3}

C14_ThreeOfFour ==
    /\ Checked
    /\ ~availability.isAvailable
    /\ Len(availability.suggestedTimes) = 3
    /\ Cardinality(FreeSlots) = 4
    /\ \E u \in Slots \ FreeSlots : u < availability.suggestedTimes[3]

NextDayNine == SetHours(Candidate.start + MinutesPerDay, 9, 0, ServerOffset)

(* C15: when none of the five slots of the day is free,                    *)
(* generateSuggestedTimes returns exactly one suggestion, 09:00 of the     *)
(* next day, whether or not a fetched event overlaps it; when a slot of    *)
(* the day is free, every suggestion is a slot of the day.                 *)
C15_NextDayFallback ==
    (Checked /\ ~availability.isAvailable) =>
        IF FreeSlots = {}
        THEN availability.suggestedTimes = <<NextDayNine>>
        ELSE Range(availability.suggestedTimes) \subseteq Slots

C15_FallbackOverlapsAnEvent ==
    /\ Checked
    /\ ~availability.isAvailable
    /\ FreeSlots = {}
    /\ availability.suggestedTimes = <<NextDayNine>>
    /\ \E e \in Range(existingEvents) : Overlaps(e, NextDayNine, NextDayNine + Duration)

(* C16: every suggested time of the candidate's day that checkAvailability *)
(* returns is free: its interval of the candidate's duration overlaps no   *)
(* event of the user's calendar.                                           *)
C16_SuggestionsFreeOnCalendar ==
    (Checked /\ ~availability.isAvailable) =>
        \A t \in Range(SameDaySuggestions) :
            \A e \in Range(calendar) :
                ~(/\ TrueStart(e, CalendarOffset) < t + Duration
                  /\ TrueEnd(e, CalendarOffset) > t)

GenerativeCalls == SelectSeq(calls, LAMBDA c : c \in {"openai", "ollama"})

(* C17: within one run of processTextToEvent each generative service is    *)
(* called at most once, at most one call is awaited at a time, and once a  *)
(* service has yielded the event no other strategy is attempted.           *)
C17_OneCallAtATime ==
    /\ Cardinality({i \in 1..Len(calls) : calls[i] = "openai"}) <= 1
    /\ Cardinality({i \in 1..Len(calls) : calls[i] = "ollama"}) <= 1
    /\ Cardinality(inflight) <= 1
    /\ inflight # {} => Len(GenerativeCalls) = 1 /\ pc \in {"awaitOpenAI", "awaitOllama"}
    /\ via \in {"openai", "ollama"} => GenerativeCalls = <<via>>

C17_OpenAIYieldedWithOllamaIdle ==
    /\ Settled
    /\ openai
    /\ ollama
    /\ via = "openai"
    /\ GenerativeCalls = <<"openai">>
    /\ inflight = {}

(* C18: for the empty text createSmartFallback returns the event with      *)
(* title "Event", location "TBD", the text as description, and a start     *)
(* strictly before its end.                                                *)
C18_EmptyTextDefaultEvent ==
    (Settled /\ via = "fallback" /\ text = "") =>
        /\ DOMAIN eventData.ev = {"title", "start", "end", "location", "description"}
        /\ eventData.ev.title = "Event"
        /\ eventData.ev.location = "TBD"
        /\ eventData.ev.description = ""
        /\ eventData.ev.start < eventData.ev.end

C18_EmptyTextFallback ==
    /\ Settled
    /\ via = "fallback"
    /\ text = ""
    /\ eventData.kind = "event"

(* C19: along POST /api/events/process nothing is written to the calendar: *)
(* until the route has answered, no events.insert is issued and no event   *)
(* is inserted; an event is inserted only by the request that creates it.  *)
C19_ProcessOnlyReads ==
    /\ pc \notin {"awaitInsert", "created"} =>
          /\ "events.insert" \notin Range(calls)
          /\ inserted = <<>>
    /\ inserted # <<>> => pc = "created" /\ "events.insert" \in Range(calls)

C19_CreatedBySeparateRequest ==
    /\ pc = "created"
    /\ Len(inserted) = 1
    /\ "events.list" \in Range(calls)
    /\ calls[Len(calls)] = "events.insert"

(* C20: authenticateToken lets a request reach the handler, with req.user  *)
(* the decoded payload, only when the Authorization header carries a token *)
(* that verifies; with no token it answers 401 "No token provided", with   *)
(* a token that does not verify 401 "Invalid token"; and it does exactly   *)
(* one of the two, calling next or answering 401.                          *)
C20_OnlyVerifiedTokensPass ==
    LET carried == IF authorization = "absent" THEN ""
                   ELSE IF Len(authorization) >= 7 /\ SubSeq(authorization, 1, 7) = "Bearer "
                   THEN SubSeq(authorization, 8, Len(authorization))
                   ELSE authorization
        passed == pc \notin {"auth", "denied"}
        refused == response.status = 401
    IN /\ passed => carried \in ValidTokens /\ user = [sub |-> carried]
       /\ refused => /\ pc = "denied"
                     /\ user = [none |-> TRUE]
                     /\ response.error = IF carried = "" THEN "No token provided"
                                         ELSE "Invalid token"
                     /\ carried \notin ValidTokens
       /\ pc # "auth" => (passed /\ ~refused) \/ (~passed /\ refused)

C20_InvalidTokenRefused ==
    /\ pc = "denied"
    /\ authorization = "Bearer evil"
    /\ response = [status |-> 401, error |-> "Invalid token"]

CandidateAsEvent == [allDay |-> FALSE, start |-> Candidate.start, end |-> Candidate.end]

(* C21: the overlap test is symmetric: testing an event of the calendar    *)
(* against the candidate gives the same verdict as testing the candidate   *)
(* against the event.                                                      *)
C21_OverlapSymmetric ==
    Checked =>
        \A e \in Range(calendar) :
            IsConflict(e, Candidate.start, Candidate.end)
                = IsConflict(CandidateAsEvent, EventStart(e), EventEnd(e))

C21_ConflictStartingEarlier ==
    /\ Checked
    /\ \E e \in Range(availability.conflicts) :
          EventStart(e) < Candidate.start /\ EventEnd(e) >= Candidate.end
    /\ \E e \in Range(calendar) : ~IsConflict(e, Candidate.start, Candidate.end)

(* C22: the capitalization of the title is idempotent: capitalizing the    *)
(* title createSmartFallback returns, word by word, gives the same title.  *)
C22_CapitalizeIdempotent ==
    (Settled /\ via = "fallback") =>
        Capitalize(eventData.ev.title) = eventData.ev.title

C22_TwoWordsCapitalized ==
    /\ Settled
    /\ via = "fallback"
    /\ text = "gym session tomorrow for 2 hours at the arc gym"
    /\ eventData.ev.title = "Gym Session"

(* C23: a text whose only time expression is "<H>am" or "<H>pm" with no    *)
(* "at" before it starts at hour H after the am/pm normalization, minute   *)
(* 0: "lunch 3pm tomorrow" starts at 15:00 (local time of the server) of   *)
(* the next day.                                                           *)
C23_BareMeridiemHour ==
    (Settled /\ via = "fallback" /\ text = "lunch 3pm tomorrow") =>
        /\ ClockOfDay(eventData.ev.start, ServerOffset) = 15 * MinutesPerHour
        /\ LocalDay(eventData.ev.start, ServerOffset) = LocalDay(now, ServerOffset) + 1

ObjectThenBrace == <<"{", "full", "}", "prose", "}">>
Handled == pc \in {"gotOpenAI", "gotOllama"} /\ pc' = "settled"

(* C24: a reply is reduced to the object from its first "{" to the         *)
(* balanced "}": when a complete event object is followed by text holding  *)
(* another "}", that first object is parsed and the service's strategy     *)
(* succeeds with it.                                                       *)
C24_FirstBalancedObject ==
    [][(Handled /\ ~reply.threw /\ reply.tokens = ObjectThenBrace) =>
           /\ via' \in {"openai", "ollama"}
           /\ eventData' = [kind |-> "event", ev |-> Body("full", now)]]_vars

(* What rule (a) alone yields for each text, "Event" when it yields nothing *)
RuleATitle == [txt \in Texts |-> TitleByDoPattern(txt, "Event")]

(* C25: the title rules are a first-match cascade: whenever rule (a), the  *)
(* leading phrase before a time or duration marker, yields text, the title *)
(* is that text, capitalized, even if rule (b) matches too.                *)
C25_FirstRuleWins ==
    (Settled /\ via = "fallback" /\ RuleATitle[text] # "Event") =>
        eventData.ev.title = Capitalize(RuleATitle[text])

(* C26: the location captured after "at", "@" or "in" is the whole phrase  *)
(* up to the next time or duration marker or the end of the text, so the   *)
(* place "the arc gym" is kept in full; a text no location rule matches    *)
(* has the location "TBD".                                                 *)
C26_WholePlaceKept ==
    (Settled /\ via = "fallback") =>
        /\ text = "gym session tomorrow for 2 hours at the arc gym"
               => eventData.ev.location = "the arc gym"
        /\ text = "team sync" => eventData.ev.location = "TBD"

(* The date keywords a text contains, in any letter case *)
DateKeywords == {"today", "tomorrow", "next week", "this week"}
Mentioned ==
    [txt \in Texts |-> {k \in DateKeywords : Includes(ToLowerCase(txt), k)}]

(* The number of server-local days from now to the start of the event *)
DaysAhead ==
    LocalDay(eventData.ev.start, ServerOffset) - LocalDay(now, ServerOffset)

(* C27: the day of the event of the deterministic extractor is decided by  *)
(* the first keyword the text contains, in the order "today" (the          *)
(* reference day), "tomorrow" (one day later), "next week" (seven days     *)
(* later), "this week" (the reference day); with no keyword it is the day  *)
(* after the reference day.                                                *)
C27_FirstKeywordWins ==
    (Settled /\ via = "fallback") =>
        DaysAhead = IF "today" \in Mentioned[text] THEN 0
                    ELSE IF "tomorrow" \in Mentioned[text] THEN 1
                    ELSE IF "next week" \in Mentioned[text] THEN 7
                    ELSE IF "this week" \in Mentioned[text] THEN 0
                    ELSE 1

C27_TodayBeatsTomorrow ==
    /\ Settled /\ via = "fallback"
    /\ {"today", "tomorrow"} \subseteq Mentioned[text]
    /\ DaysAhead = 0

(* C28: the suggestions taken from the day of the candidate lie at 9, 11,  *)
(* 13, 15 or 17 o'clock of the timezone of the user, on the day of the     *)
(* candidate's start in that timezone, whatever the timezone of the        *)
(* server process is.                                                      *)
C28_SlotsInUserTimezone ==
    (Checked /\ ~availability.isAvailable) =>
        \A t \in Range(SameDaySuggestions) :
            /\ ClockOfDay(t, RequestOffset)
                   \in { h * MinutesPerHour :
                           h \in {x \in FirstHour..LastHour : (x - FirstHour) % HourStep = 0} }
            /\ LocalDay(t, RequestOffset) = LocalDay(Candidate.start, RequestOffset)

(* The strategy processTextToEvent attempted first, by the name the status *)
(* route gives it                                                          *)
FirstAttempt ==
    IF GenerativeCalls = <<>> THEN "Fallback"
    ELSE IF Head(GenerativeCalls) = "openai" THEN "OpenAI" ELSE "Ollama"

(* C29: the active_service that GET /api/events/nlp-status reports is the  *)
(* strategy processTextToEvent attempts first, however the configuration   *)
(* is supplied, backend/.env included: a report of "OpenAI" means that     *)
(* processTextToEvent calls OpenAI.                                        *)
C29_StatusNamesFirstStrategy ==
    (statusReport # NoReport /\ eventData # Pending /\ IsTimeZone(RequestTimezone)) =>
        statusReport.active_service = FirstAttempt

(* C30: processTextToEvent resolves with an event for every timezone       *)
(* argument: an absent timezone is treated as UTC, and with a timezone     *)
(* that is no IANA name the run still ends in the event of the             *)
(* deterministic extractor, never in a rejected promise.                   *)
C30_EveryTimezoneSettles ==
    Settled =>
        /\ userTimezone = "absent" => eventData.kind # "rejected"
        /\ ~IsTimeZone(RequestTimezone) =>
              /\ eventData.kind = "event"
              /\ via = "fallback"

====
